---- MODULE Spec2Model ----
(***************************************************************************)
(* Number words: the three parsers of src/src/lib.rs (NaiveParser,         *)
(* DfsParser, MemoizedParser) run one after the other on the same input,   *)
(* with the same table.  Characters are one-character strings, a token is  *)
(* a sequence of characters, a decoded String is a sequence of symbols.    *)
(* Positions are 0-based as in the source; Slice translates to TLA+'s      *)
(* 1-based sequences.                                                      *)
(***************************************************************************)
EXTENDS Integers, Sequences, FiniteSets

\* ------------------------------------------------------------------ bounds
\* Longest configuration list (number of (token, symbol) pairs) enumerated.
MaxConfig == 2
\* Longest input enumerated.
MaxInput == 3

\* Characters of the enumerated tokens and inputs.  "U+00E9" stands for one
\* char that takes two bytes in UTF-8, so that String::len() (bytes) and the
\* number of chars differ.
Chars == {"1", "U+00E9"}
\* Output symbols of the enumerated configurations.
Symbols == {"A", "B"}
\* Tokens of the enumerated configurations (the empty token included: the
\* source does not reject it).
TokenPool ==
    { <<>>, <<"1">>, <<"U+00E9">>,
      <<"1", "1">>, <<"1", "U+00E9">>, <<"U+00E9", "1">>, <<"U+00E9", "U+00E9">> }

\* ------------------------------------------------------------ pure helpers
Min(a, b) == IF a < b THEN a ELSE b
Max(a, b) == IF a > b THEN a ELSE b

\* Number of bytes of a char in UTF-8, as String::len() counts them.
Utf8Len(c) == IF c = "U+00E9" THEN 2 ELSE 1

RECURSIVE StrLen(_)
\* String::len(): the number of bytes of the string.
StrLen(s) == IF s = <<>> THEN 0 ELSE Utf8Len(Head(s)) + StrLen(Tail(s))

\* &chars[from .. to], positions 0-based, to exclusive.
Slice(chars, from, to) == SubSeq(chars, from + 1, to)

\* ---------------------------------------------------------- default_config
Letters ==
    << "A", "B", "C", "D", "E", "F", "G", "H", "I", "J", "K", "L", "M",
       "N", "O", "P", "Q", "R", "S", "T", "U", "V", "W", "X", "Y", "Z" >>
Digits == << "0", "1", "2", "3", "4", "5", "6", "7", "8", "9" >>

\* u8::to_string(): the decimal digits of k, without leading zeros (k < 100).
to_string(k) ==
    IF k < 10 THEN << Digits[k + 1] >>
    ELSE << Digits[(k \div 10) + 1], Digits[(k % 10) + 1] >>

\* (b'A' ..= b'Z').map(|b| ((b - b'A' + 1).to_string(), b as char))
default_config == [k \in 1..Len(Letters) |-> << to_string(k), Letters[k] >>]

\* --------------------------------------------------------------------- new
\* Mutant of NewAlphabet: only the first char of every key is inserted.
NewAlphabetFirstChars(config) ==
    { config[i][1][1] : i \in { j \in 1..Len(config) : config[j][1] # <<>> } }

\* alphabet: every char of every key of the configuration.
NewAlphabet(config) ==
    UNION { { config[i][1][j] : j \in 1..Len(config[i][1]) } : i \in 1..Len(config) }

RECURSIVE FoldMaxLen(_, _)
FoldMaxLen(config, acc) ==
    IF config = <<>> THEN acc
    ELSE FoldMaxLen(Tail(config), Max(acc, StrLen(Head(config)[1])))

\* max_lookahead: config.iter().map(|(s, _)| s.len()).fold(0, cmp::max)
NewMaxLookahead(config) == FoldMaxLen(config, 0)

\* table: the pairs collected into a HashMap in order, so that the last pair
\* with a given key is the one that stays.
NewTable(config) ==
    [ t \in { config[i][1] : i \in 1..Len(config) } |->
        LET last == CHOOSE i \in 1..Len(config) :
                        /\ config[i][1] = t
                        /\ \A j \in 1..Len(config) : config[j][1] = t => j <= i
        IN config[last][2] ]

\* ------------------------------------------------------------------- state
VARIABLES
    max_lookahead,  \* Self.max_lookahead (the same in the three parsers)
    table,          \* Self.table
    alphabet,       \* Self.alphabet
    digits,         \* the argument of parse, as its chars
    pc,             \* where the run is
    calls,          \* number of parse_list / dfs / generate calls made so far
    naive_stack,    \* the active parse_list calls, outermost first
    naive_ret,      \* what NaiveParser::parse returned
    dfs_stack,      \* the active dfs calls, outermost first
    dfs_current,    \* DfsParser::parse's `current` buffer
    dfs_results,    \* DfsParser::parse's `results`
    dfs_ret,        \* what DfsParser::parse returned
    adj,            \* MemoizedParser::parse's `adj`
    dp,             \* count_solutions' `dp`
    capacity,       \* the capacity `results` was allocated with
    gen_stack,      \* the active generate calls, outermost first
    gen_current,    \* MemoizedParser::parse's `current` buffer
    gen_results,    \* MemoizedParser::parse's `results`
    memo_ret        \* what MemoizedParser::parse returned

vars == << max_lookahead, table, alphabet, digits, pc, calls,
           naive_stack, naive_ret,
           dfs_stack, dfs_current, dfs_results, dfs_ret,
           adj, dp, capacity, gen_stack, gen_current, gen_results, memo_ret >>

naive_vars == << naive_stack, naive_ret >>
dfs_vars == << dfs_stack, dfs_current, dfs_results, dfs_ret >>
memo_vars == << adj, dp, capacity, gen_stack, gen_current, gen_results, memo_ret >>
parser_vars == << max_lookahead, table, alphabet, digits >>

\* Result<Vec<String>, NumberWordsError>, and the absence of a result yet.
NotReturned == [tag |-> "None", list |-> <<>>, ch |-> ""]
Ok(list) == [tag |-> "Ok", list |-> list, ch |-> ""]
Err(c) == [tag |-> "Err", list |-> <<>>, ch |-> c]

Top(stack) == stack[Len(stack)]
Pop(stack) == SubSeq(stack, 1, Len(stack) - 1)
SetTop(stack, frame) == [stack EXCEPT ![Len(stack)] = frame]

\* ---------------------------------------------------------------- validate
RECURSIVE validate_last(_)
\* Mutant of validate: the chars are scanned to the end, and the last one that
\* is not in the alphabet is the error.
validate_last(ds) ==
    IF ds = <<>> THEN [ok |-> TRUE, ch |-> ""]
    ELSE LET rest == validate_last(Tail(ds)) IN
         IF ~rest.ok THEN rest
         ELSE IF Head(ds) \notin alphabet THEN [ok |-> FALSE, ch |-> Head(ds)]
         ELSE rest

RECURSIVE validate(_)
\* The chars in order; the first one that is not in the alphabet is the error.
validate(ds) ==
    IF ds = <<>> THEN [ok |-> TRUE, ch |-> ""]
    ELSE IF Head(ds) \notin alphabet THEN [ok |-> FALSE, ch |-> Head(ds)]
    ELSE validate(Tail(ds))

\* Mutant of FirstLen: the loops over lookaheads start at 0.
FirstLenZero == 1 - 1

\* The first token length a loop over lookaheads tries.
FirstLen == 1

\* ------------------------------------------------------------------- Init
Pairs == TokenPool \X Symbols
Configs == UNION { [1..k -> Pairs] : k \in 0..MaxConfig }
Inputs == UNION { [1..k -> Chars] : k \in 0..MaxInput }

\* The inputs of the source's tests (run_common_tests, test_invalid_chars),
\* which run against default_config().
TestInputs ==
    { <<>>, <<"1", "2", "3", "4">>, <<"1">>, <<"1", "5">>, <<"1", "1", "1">>,
      <<"2", "0">>, <<"0">>, <<"9", "9">>, <<"1", "0">>, <<"0", "1">>,
      <<"A">>, <<"1", " ", "2">> }

Init ==
    /\ \E config \in Configs \cup {default_config} :
         /\ max_lookahead = NewMaxLookahead(config)
         /\ table = NewTable(config)
         /\ alphabet = NewAlphabet(config)
         /\ digits \in (IF config = default_config THEN TestInputs ELSE Inputs)
    /\ pc = "naive"
    /\ calls = [naive |-> 0, dfs |-> 0, memo |-> 0]
    /\ naive_stack = <<>>
    /\ naive_ret = NotReturned
    /\ dfs_stack = <<>>
    /\ dfs_current = <<>>
    /\ dfs_results = <<>>
    /\ dfs_ret = NotReturned
    /\ adj = <<>>
    /\ dp = <<>>
    /\ capacity = 0
    /\ gen_stack = <<>>
    /\ gen_current = <<>>
    /\ gen_results = <<>>
    /\ memo_ret = NotReturned

\* ------------------------------------------------------------ NaiveParser
\* cmp::min(self.max_lookahead, ds.len())
MaxLookaheadIndex(ds) == Min(max_lookahead, Len(ds))

\* cmp::min(lookahead_index, max_lookahead_index)
UnparsedIndex(ds, lookahead_index) == Min(lookahead_index, MaxLookaheadIndex(ds))

\* &prefix[..unparsed_index], with prefix = &ds[..max_lookahead_index]
TokenSlice(ds, lookahead_index) ==
    Slice(Slice(ds, 0, MaxLookaheadIndex(ds)), 0, UnparsedIndex(ds, lookahead_index))

\* Mutant of PushFront: s.push_back(c).
PushBack(c, s) == Append(s, c)

\* s.push_front(c)
PushFront(c, s) == <<c>> \o s

\* A call parse_list(ds) at its start: the flat_map is at its first lookahead
\* and has collected nothing.
ParseListFrame(ds) == [ds |-> ds, lookahead_index |-> FirstLen, acc |-> <<>>]

\* The call has nothing left to do: the suffix is empty, or the range
\* 1 ..= max_lookahead_index is exhausted.
ParseListDone(f) ==
    \/ f.ds = <<>>
    \/ f.lookahead_index > MaxLookaheadIndex(f.ds)

\* What the call returns: vec![VecDeque::new()] for the empty suffix, else
\* what the flat_map collected.
ParseListValue(f) == IF f.ds = <<>> THEN << <<>> >> ELSE f.acc

\* NaiveParser::parse up to the call of parse_list: validate, then collect
\* the chars.
NaiveParse ==
    /\ pc = "naive"
    /\ LET v == validate(digits) IN
         IF ~v.ok
           THEN /\ naive_ret' = Err(v.ch)
                /\ pc' = "dfs"
                /\ UNCHANGED << naive_stack, calls >>
           ELSE /\ naive_stack' = << ParseListFrame(digits) >>
                /\ calls' = [calls EXCEPT !.naive = @ + 1]
                /\ pc' = "naive_list"
                /\ UNCHANGED naive_ret
    /\ UNCHANGED << parser_vars, dfs_vars, memo_vars >>

\* self.table.get(token_slice) is Some(c): recurse on the unparsed suffix.
NaiveHit ==
    /\ pc = "naive_list"
    /\ LET f == Top(naive_stack) IN
         /\ ~ParseListDone(f)
         /\ TokenSlice(f.ds, f.lookahead_index) \in DOMAIN table
         /\ naive_stack' = Append(naive_stack,
               ParseListFrame(Slice(f.ds, UnparsedIndex(f.ds, f.lookahead_index), Len(f.ds))))
         /\ calls' = [calls EXCEPT !.naive = @ + 1]
    /\ UNCHANGED << parser_vars, pc, naive_ret, dfs_vars, memo_vars >>

\* self.table.get(token_slice) is None: vec![] for this lookahead.
NaiveMiss ==
    /\ pc = "naive_list"
    /\ LET f == Top(naive_stack) IN
         /\ ~ParseListDone(f)
         /\ TokenSlice(f.ds, f.lookahead_index) \notin DOMAIN table
         /\ naive_stack' = SetTop(naive_stack,
               [f EXCEPT !.lookahead_index = @ + 1])
    /\ UNCHANGED << parser_vars, pc, calls, naive_ret, dfs_vars, memo_vars >>

\* An inner parse_list returns: its caller pushes the symbol at the front of
\* every word returned, chains them after what it has, and goes on to the
\* next lookahead.
NaiveReturn ==
    /\ pc = "naive_list"
    /\ Len(naive_stack) > 1
    /\ LET f == Top(naive_stack)
           g == naive_stack[Len(naive_stack) - 1]
           c == table[TokenSlice(g.ds, g.lookahead_index)]
           words == ParseListValue(f)
       IN
         /\ ParseListDone(f)
         /\ naive_stack' = SetTop(Pop(naive_stack),
               [g EXCEPT !.acc = @ \o [i \in 1..Len(words) |-> PushFront(c, words[i])],
                         !.lookahead_index = @ + 1])
    /\ UNCHANGED << parser_vars, pc, calls, naive_ret, dfs_vars, memo_vars >>

\* The outermost parse_list returns: parse collects every VecDeque<char>
\* into a String and returns Ok.
NaiveFinish ==
    /\ pc = "naive_list"
    /\ Len(naive_stack) = 1
    /\ ParseListDone(Top(naive_stack))
    /\ naive_ret' = Ok(ParseListValue(Top(naive_stack)))
    /\ naive_stack' = <<>>
    /\ pc' = "dfs"
    /\ UNCHANGED << parser_vars, calls, dfs_vars, memo_vars >>

\* -------------------------------------------------------------- DfsParser
\* Mutant of DfsMaxLen: the last char of the input is left out of the lookahead.
DfsMaxLenShort(chars, index) == Min(max_lookahead, Len(chars) - index - 1)

\* cmp::min(self.max_lookahead, chars.len() - index)
DfsMaxLen(chars, index) == Min(max_lookahead, Len(chars) - index)

\* The position the recursive call is made at.
DfsNextIndex(index, len) == index + len

\* current.push(c)
Push(current, c) == Append(current, c)

\* Mutant of PopChar: the symbol pushed is not removed.
NoPop(current) == current

\* current.pop(): the last char is removed (nothing happens when empty).
PopChar(current) ==
    IF current = <<>> THEN current ELSE SubSeq(current, 1, Len(current) - 1)

\* A call dfs(chars, index, current, results) at its start.  `entry` and
\* `entry_results` record `current` and results.len() as the call found them.
DfsFrame(index, current, results) ==
    [index |-> index, len |-> FirstLen, entry |-> current,
     entry_results |-> Len(results)]

\* DfsParser::parse up to the call of dfs.
DfsParse ==
    /\ pc = "dfs"
    /\ LET v == validate(digits) IN
         IF ~v.ok
           THEN /\ dfs_ret' = Err(v.ch)
                /\ pc' = "memo"
                /\ UNCHANGED << dfs_stack, dfs_current, dfs_results, calls >>
           ELSE /\ dfs_results' = <<>>
                /\ dfs_current' = <<>>
                /\ dfs_stack' = << DfsFrame(0, <<>>, <<>>) >>
                /\ calls' = [calls EXCEPT !.dfs = @ + 1]
                /\ pc' = "dfs_search"
                /\ UNCHANGED dfs_ret
    /\ UNCHANGED << parser_vars, naive_vars, memo_vars >>

\* The call at the top of the stack is over: it was at the end of the input
\* (and has pushed a result), or its loop over len is exhausted.
DfsAtEnd(f) == f.index = Len(digits)
DfsLoopOver(f) == ~DfsAtEnd(f) /\ f.len > DfsMaxLen(digits, f.index)

\* The return of the call at the top of the stack into its caller, which
\* pops the symbol it pushed and goes on to the next len; the outermost
\* call returns into parse, which returns Ok(results).
DfsReturnTo(stack, current, results) ==
    IF Len(stack) = 1
      THEN /\ dfs_stack' = <<>>
           /\ dfs_current' = current
           /\ dfs_ret' = Ok(results)
           /\ pc' = "memo"
      ELSE /\ dfs_stack' = SetTop(Pop(stack),
                 [stack[Len(stack) - 1] EXCEPT !.len = @ + 1])
           /\ dfs_current' = PopChar(current)
           /\ UNCHANGED << dfs_ret, pc >>

\* index == chars.len(): results.push(current.clone()); return.
DfsBase ==
    /\ pc = "dfs_search"
    /\ DfsAtEnd(Top(dfs_stack))
    /\ dfs_results' = Append(dfs_results, dfs_current)
    /\ DfsReturnTo(dfs_stack, dfs_current, dfs_results')
    /\ UNCHANGED << parser_vars, calls, naive_vars, memo_vars >>

\* self.table.get(slice) is Some(c): push c and recurse at index + len.
DfsHit ==
    /\ pc = "dfs_search"
    /\ LET f == Top(dfs_stack)
           slice == Slice(digits, f.index, f.index + f.len)
       IN
         /\ ~DfsAtEnd(f)
         /\ f.len <= DfsMaxLen(digits, f.index)
         /\ slice \in DOMAIN table
         /\ dfs_current' = Push(dfs_current, table[slice])
         /\ dfs_stack' = Append(dfs_stack,
               DfsFrame(DfsNextIndex(f.index, f.len), dfs_current', dfs_results))
         /\ calls' = [calls EXCEPT !.dfs = @ + 1]
    /\ UNCHANGED << parser_vars, pc, dfs_results, dfs_ret, naive_vars, memo_vars >>

\* self.table.get(slice) is None: next len.
DfsMiss ==
    /\ pc = "dfs_search"
    /\ LET f == Top(dfs_stack)
           slice == Slice(digits, f.index, f.index + f.len)
       IN
         /\ ~DfsAtEnd(f)
         /\ f.len <= DfsMaxLen(digits, f.index)
         /\ slice \notin DOMAIN table
         /\ dfs_stack' = SetTop(dfs_stack, [f EXCEPT !.len = @ + 1])
    /\ UNCHANGED << parser_vars, pc, calls, dfs_current, dfs_results, dfs_ret,
                    naive_vars, memo_vars >>

\* The loop over len is exhausted: the call returns.
DfsLoopEnd ==
    /\ pc = "dfs_search"
    /\ DfsLoopOver(Top(dfs_stack))
    /\ DfsReturnTo(dfs_stack, dfs_current, dfs_results)
    /\ UNCHANGED << parser_vars, calls, dfs_results, naive_vars, memo_vars >>

\* --------------------------------------------------------- MemoizedParser
\* adj[i] and dp[i] for a 0-based position i.
AdjAt(g, i) == g[i + 1]
DpAt(d, i) == d[i + 1]

\* cmp::min(self.max_lookahead, n - i)
GraphMaxLen(chars, i) == Min(max_lookahead, Len(chars) - i)

RECURSIVE EdgesFromDescending(_, _, _)
\* Mutant of EdgesFrom: the edges are pushed in descending len.
EdgesFromDescending(chars, i, len) ==
    IF len > GraphMaxLen(chars, i) THEN <<>>
    ELSE LET slice == Slice(chars, i, i + len) IN
         EdgesFromDescending(chars, i, len + 1)
         \o (IF slice \in DOMAIN table
               THEN << [c |-> table[slice], next |-> i + len] >>
               ELSE <<>>)

RECURSIVE EdgesFrom(_, _, _)
\* The inner loop of build_graph from `len` on: an edge (c, i + len) is
\* pushed for every len whose slice is a key of the table, in ascending len.
EdgesFrom(chars, i, len) ==
    IF len > GraphMaxLen(chars, i) THEN <<>>
    ELSE LET slice == Slice(chars, i, i + len) IN
         (IF slice \in DOMAIN table
            THEN << [c |-> table[slice], next |-> i + len] >>
            ELSE <<>>)
         \o EdgesFrom(chars, i, len + 1)

\* build_graph: adj has one edge list per position 0 .. n-1.
build_graph(chars) == [k \in 1..Len(chars) |-> EdgesFrom(chars, k - 1, FirstLen)]

RECURSIVE AddEdgesCountsEdges(_, _, _)
\* Mutant of AddEdges: dp[i] += 1 for every edge.
AddEdgesCountsEdges(d, i, edges) ==
    IF edges = <<>> THEN d
    ELSE AddEdgesCountsEdges([d EXCEPT ![i + 1] = @ + 1], i, Tail(edges))

RECURSIVE AddEdges(_, _, _)
\* for &(_, next_idx) in &adj[i] { dp[i] += dp[next_idx]; }
AddEdges(d, i, edges) ==
    IF edges = <<>> THEN d
    ELSE AddEdges([d EXCEPT ![i + 1] = @ + DpAt(d, Head(edges).next)], i, Tail(edges))

RECURSIVE CountLoopSkipsZero(_, _, _)
\* Mutant of CountLoop: the loop stops before position 0.
CountLoopSkipsZero(d, i, g) ==
    IF i < 1 THEN d ELSE CountLoopSkipsZero(AddEdges(d, i, AdjAt(g, i)), i - 1, g)

RECURSIVE CountLoop(_, _, _)
\* for i in (0..n).rev(), from i down to 0.
CountLoop(d, i, g) ==
    IF i < 0 THEN d ELSE CountLoop(AddEdges(d, i, AdjAt(g, i)), i - 1, g)

\* Mutant of CountDp: dp[n] is left at 0.
CountDpNoBase(n, g) == CountLoop([k \in 1..(n + 1) |-> 0], n - 1, g)

\* The dp vector count_solutions ends with: vec![0; n + 1], dp[n] = 1, then
\* the loop.
CountDp(n, g) == CountLoop([k \in 1..(n + 1) |-> IF k = n + 1 THEN 1 ELSE 0], n - 1, g)

\* count_solutions returns dp[0].
count_solutions(n, g) == DpAt(CountDp(n, g), 0)

\* A call generate(adj, index, current, results) at its start: `edge` is the
\* place of the loop in adj[index] (1 is the first edge).
GenFrame(index, current, results) ==
    [index |-> index, edge |-> 1, entry |-> current,
     entry_results |-> Len(results)]

\* MemoizedParser::parse up to the call of build_graph.
MemoParse ==
    /\ pc = "memo"
    /\ LET v == validate(digits) IN
         IF ~v.ok
           THEN /\ memo_ret' = Err(v.ch)
                /\ pc' = "done"
           ELSE /\ pc' = "memo_graph"
                /\ UNCHANGED memo_ret
    /\ UNCHANGED << parser_vars, calls, naive_vars, dfs_vars,
                    adj, dp, capacity, gen_stack, gen_current, gen_results >>

\* let adj = self.build_graph(&v);
MemoBuildGraph ==
    /\ pc = "memo_graph"
    /\ adj' = build_graph(digits)
    /\ pc' = "memo_count"
    /\ UNCHANGED << parser_vars, calls, naive_vars, dfs_vars,
                    dp, capacity, gen_stack, gen_current, gen_results, memo_ret >>

\* let count = self.count_solutions(n, &adj); results and current are
\* allocated, and generate is called at position 0.
MemoCount ==
    /\ pc = "memo_count"
    /\ dp' = CountDp(Len(digits), adj)
    /\ capacity' = count_solutions(Len(digits), adj)
    /\ gen_results' = <<>>
    /\ gen_current' = <<>>
    /\ gen_stack' = << GenFrame(0, <<>>, <<>>) >>
    /\ calls' = [calls EXCEPT !.memo = @ + 1]
    /\ pc' = "memo_generate"
    /\ UNCHANGED << parser_vars, naive_vars, dfs_vars, adj, memo_ret >>

GenAtEnd(f) == f.index = Len(adj)
GenLoopOver(f) == ~GenAtEnd(f) /\ f.edge > Len(AdjAt(adj, f.index))

\* The return of the call at the top of the stack into its caller, which
\* pops the symbol it pushed and goes on to the next edge; the outermost
\* call returns into parse, which returns Ok(results).
GenReturnTo(stack, current, results) ==
    IF Len(stack) = 1
      THEN /\ gen_stack' = <<>>
           /\ gen_current' = current
           /\ memo_ret' = Ok(results)
           /\ pc' = "done"
      ELSE /\ gen_stack' = SetTop(Pop(stack),
                 [stack[Len(stack) - 1] EXCEPT !.edge = @ + 1])
           /\ gen_current' = PopChar(current)
           /\ UNCHANGED << memo_ret, pc >>

\* index == adj.len(): results.push(current.clone()); return.
GenBase ==
    /\ pc = "memo_generate"
    /\ GenAtEnd(Top(gen_stack))
    /\ gen_results' = Append(gen_results, gen_current)
    /\ GenReturnTo(gen_stack, gen_current, gen_results')
    /\ UNCHANGED << parser_vars, calls, naive_vars, dfs_vars, adj, dp, capacity >>

\* The next edge (c, next_idx) of adj[index]: push c and recurse at next_idx.
GenEdge ==
    /\ pc = "memo_generate"
    /\ LET f == Top(gen_stack) IN
         /\ ~GenAtEnd(f)
         /\ f.edge <= Len(AdjAt(adj, f.index))
         /\ LET e == AdjAt(adj, f.index)[f.edge] IN
              /\ gen_current' = Push(gen_current, e.c)
              /\ gen_stack' = Append(gen_stack,
                    GenFrame(e.next, gen_current', gen_results))
         /\ calls' = [calls EXCEPT !.memo = @ + 1]
    /\ UNCHANGED << parser_vars, pc, naive_vars, dfs_vars,
                    adj, dp, capacity, gen_results, memo_ret >>

\* The edges of adj[index] are exhausted: the call returns.
GenLoopEnd ==
    /\ pc = "memo_generate"
    /\ GenLoopOver(Top(gen_stack))
    /\ GenReturnTo(gen_stack, gen_current, gen_results)
    /\ UNCHANGED << parser_vars, calls, naive_vars, dfs_vars,
                    adj, dp, capacity, gen_results >>

\* ------------------------------------------------------------------- Spec
Next ==
    \/ NaiveParse \/ NaiveHit \/ NaiveMiss \/ NaiveReturn \/ NaiveFinish
    \/ DfsParse \/ DfsBase \/ DfsHit \/ DfsMiss \/ DfsLoopEnd
    \/ MemoParse \/ MemoBuildGraph \/ MemoCount
    \/ GenBase \/ GenEdge \/ GenLoopEnd

Spec == Init /\ [][Next]_vars

\* The program is sequential: a step that can be taken is taken.
FairSpec == Spec /\ WF_vars(Next)

\* ------------------------------------------- what a decoding is (reference)
\* These definitions state the claims; they use neither the parsers' state
\* nor their operators.
Range(seq) == { seq[i] : i \in 1..Len(seq) }

\* The chars that occur in some key of the table.
KeyChars == UNION { Range(t) : t \in DOMAIN table }

\* Every char of the input occurs in some token.
AllValid == \A i \in 1..Len(digits) : digits[i] \in KeyChars
\* The first char of the input that occurs in no token (when there is one).
FirstInvalid ==
    digits[CHOOSE i \in 1..Len(digits) :
              /\ digits[i] \notin KeyChars
              /\ \A j \in 1..(i - 1) : digits[j] \in KeyChars]

RECURSIVE Compositions(_)
\* The ways of writing m as an ordered sum of lengths >= 1.
Compositions(m) ==
    IF m = 0 THEN { <<>> }
    ELSE UNION { { <<k>> \o r : r \in Compositions(m - k) } : k \in 1..m }

RECURSIVE Cut(_, _)
\* The consecutive pieces of chars whose lengths are p.
Cut(chars, p) ==
    IF p = <<>> THEN <<>>
    ELSE << SubSeq(chars, 1, Head(p)) >>
         \o Cut(SubSeq(chars, Head(p) + 1, Len(chars)), Tail(p))

\* The partitions of chars into consecutive table tokens that cover it, each
\* given by the lengths of its tokens.
Partitions(chars) ==
    { p \in Compositions(Len(chars)) :
        \A k \in 1..Len(p) : Cut(chars, p)[k] \in DOMAIN table }

\* The symbols of the tokens of partition p, left to right.
Decoding(chars, p) == [k \in 1..Len(p) |-> table[Cut(chars, p)[k]]]

\* The input from position i on.
Suffix(i) == SubSeq(digits, i + 1, Len(digits))

\* The distinct strings the partitions of the suffix at i decode to.
StringsFrom(i) == { Decoding(Suffix(i), p) : p \in Partitions(Suffix(i)) }

\* Number of places of list that hold s.
Occurrences(list, s) == Cardinality({ i \in 1..Len(list) : list[i] = s })

\* list holds exactly one string per partition of the input.
OnePerPartition(list) ==
    /\ Len(list) = Cardinality(Partitions(digits))
    /\ \A s \in Range(list) \cup StringsFrom(0) :
         Occurrences(list, s) =
           Cardinality({ p \in Partitions(digits) : Decoding(digits, p) = s })

\* p comes before q when token lengths are tried in ascending order at each
\* position, depth-first: at the first place they differ, p's token is shorter.
Before(p, q) ==
    \E k \in 1..Min(Len(p), Len(q)) :
        /\ p[k] < q[k]
        /\ \A j \in 1..(k - 1) : p[j] = q[j]

\* The decodings of the input in that order.
DepthFirstOrder ==
    LET P == Partitions(digits)
        rank(p) == Cardinality({ q \in P : Before(q, p) })
    IN [k \in 1..Cardinality(P) |->
          Decoding(digits, CHOOSE p \in P : rank(p) = k - 1)]

Returned == { r \in {naive_ret, dfs_ret, memo_ret} : r.tag # "None" }
DefaultTable == NewTable(default_config)

\* ------------------------------------------------------------------ claims

\* C1: for an input whose chars are all in the alphabet, every parser returns
\* Ok with exactly one string per partition of the input into table tokens
\* (none missing, none extra, equal strings of distinct partitions all kept);
\* with the default table "" gives [""], "1234" the set {ABCD, AWD, LCD} and
\* "111" the set {AAA, AK, KA}.
C1_OnePerPartition ==
    AllValid =>
      \A r \in Returned :
        /\ r.tag = "Ok"
        /\ OnePerPartition(r.list)
        /\ digits = <<>> => r.list = << <<>> >>
        /\ (table = DefaultTable /\ digits = <<"1", "2", "3", "4">>) =>
             Range(r.list) = { <<"A", "B", "C", "D">>, <<"A", "W", "D">>, <<"L", "C", "D">> }
        /\ (table = DefaultTable /\ digits = <<"1", "1", "1">>) =>
             Range(r.list) = { <<"A", "A", "A">>, <<"A", "K">>, <<"K", "A">> }

\* C1 witness: the three parsers have returned a list in which two distinct
\* partitions gave the same string, kept twice.
C1_Witness ==
    /\ pc = "done"
    /\ AllValid
    /\ \A r \in Returned : r.tag = "Ok" /\ Len(r.list) > Cardinality(Range(r.list))
    /\ Cardinality(Range(memo_ret.list)) >= 2

\* C2: the three parsers return the same set of strings, and either the same
\* Err or all Ok.
C2_SameSet ==
    pc = "done" =>
      /\ naive_ret.tag = dfs_ret.tag /\ dfs_ret.tag = memo_ret.tag
      /\ naive_ret.tag \in {"Ok", "Err"}
      /\ naive_ret.ch = dfs_ret.ch /\ dfs_ret.ch = memo_ret.ch
      /\ Range(naive_ret.list) = Range(dfs_ret.list)
      /\ Range(dfs_ret.list) = Range(memo_ret.list)

\* C2 witness: the three have returned Ok with at least two different strings.
C2_Witness ==
    /\ pc = "done"
    /\ naive_ret.tag = "Ok"
    /\ Cardinality(Range(naive_ret.list)) >= 2
    /\ Len(digits) = MaxInput

\* C3: when the input holds a char that occurs in no token, each parser
\* returns Err(InvalidCharacter(c)) with c the first such char, whatever
\* follows it and whether or not a prefix decodes; it returns no list, and no
\* parse_list, dfs, build_graph, count_solutions or generate step has run.
C3_FirstInvalidChar ==
    ~AllValid =>
      /\ pc \in {"naive", "dfs", "memo", "done"}
      /\ pc # "naive" => naive_ret = Err(FirstInvalid)
      /\ pc \in {"memo", "done"} => dfs_ret = Err(FirstInvalid)
      /\ pc = "done" => memo_ret = Err(FirstInvalid)
      /\ calls = [naive |-> 0, dfs |-> 0, memo |-> 0]
      /\ naive_stack = <<>> /\ dfs_stack = <<>> /\ gen_stack = <<>>
      /\ dfs_results = <<>> /\ gen_results = <<>>
      /\ adj = <<>> /\ dp = <<>>

\* C3 witness: the three have returned the error for an input whose first
\* char is a token, whose second is the invalid one, and which goes on.
C3_Witness ==
    /\ pc = "done"
    /\ Len(digits) >= 3
    /\ << digits[1] >> \in DOMAIN table
    /\ digits[2] \notin KeyChars
    /\ digits[3] # digits[2]
    /\ memo_ret = Err(digits[2])

\* C4: validation is the only failure: when every char of the input occurs in
\* some token (anywhere in it), each parser returns Ok, with the empty list
\* when the input has no partition into tokens; with the default table "0"
\* and "01" give Ok([]).
C4_OnlyValidationFails ==
    AllValid =>
      \A r \in Returned :
        /\ r.tag = "Ok"
        /\ Partitions(digits) = {} => r = Ok(<<>>)
        /\ (table = DefaultTable /\ digits \in { <<"0">>, <<"0", "1">> }) => r = Ok(<<>>)

\* C4 witness: the three have returned Ok([]) for an input that starts with a
\* char that is no token by itself but occurs inside a longer token.
C4_Witness ==
    /\ pc = "done"
    /\ digits # <<>>
    /\ AllValid
    /\ << digits[1] >> \notin DOMAIN table
    /\ \A r \in Returned : r = Ok(<<>>)
    /\ Cardinality(Returned) = 1

\* count_solutions has run (and generate has been called).
Counted == pc = "memo_generate" \/ (pc = "done" /\ memo_ret.tag = "Ok")

\* C5: generate produces exactly dp[0] results, dp[0] being what
\* count_solutions returned for the same graph: during generation the number
\* of results never exceeds the capacity dp[0] the container was allocated
\* with, and when generation is over it equals dp[0].
C5_ExactPreSizing ==
    Counted =>
      /\ capacity = DpAt(dp, 0)
      /\ Len(gen_results) <= capacity
      /\ pc = "done" => /\ Len(gen_results) = capacity
                        /\ Len(memo_ret.list) = DpAt(dp, 0)

\* C5 witness: generation is over and has filled a container of capacity >= 3.
C5_Witness ==
    /\ pc = "done"
    /\ memo_ret.tag = "Ok"
    /\ capacity >= 3
    /\ Len(memo_ret.list) = capacity

\* The edge a generate call that is not the innermost one is in.
EdgeOf(f) == AdjAt(adj, f.index)[f.edge]

\* C6 as the spec states it: generation has no failed branch, that is every
\* call of generate made through an edge has recorded at least one result
\* when it returns (the position the edge leads to has a completion).
C6_NoFailedBranch ==
    (pc = "memo_generate" /\ Len(gen_stack) >= 2 /\ GenLoopOver(Top(gen_stack))) =>
      /\ Len(gen_results) > Top(gen_stack).entry_results
      /\ StringsFrom(Top(gen_stack).index) # {}

\* C6 as amended: every edge the walk goes through is a token of the table at
\* that position with its symbol (generation never fails a lookup), and a
\* call of generate at position index has recorded exactly dp[index] results
\* when it returns, which is zero when the end cannot be reached from index.
C6_EdgesValidCallsYieldDp ==
    pc = "memo_generate" =>
      /\ \A k \in 1..(Len(gen_stack) - 1) :
           LET f == gen_stack[k]
               slice == SubSeq(digits, f.index + 1, EdgeOf(f).next)
           IN /\ slice \in DOMAIN table
              /\ EdgeOf(f).c = table[slice]
              /\ gen_stack[k + 1].index = EdgeOf(f).next
      /\ GenLoopOver(Top(gen_stack)) =>
           Len(gen_results) - Top(gen_stack).entry_results
             = DpAt(dp, Top(gen_stack).index)
      /\ GenAtEnd(Top(gen_stack)) => DpAt(dp, Top(gen_stack).index) = 1

\* C6 witness: a call of generate made through an edge returns having
\* recorded nothing, while another branch has recorded a result.
C6_Witness ==
    /\ pc = "memo_generate"
    /\ Len(gen_stack) >= 2
    /\ GenLoopOver(Top(gen_stack))
    /\ Len(gen_results) = Top(gen_stack).entry_results
    /\ DpAt(dp, 0) >= 1

\* dp follows the recurrence: dp[n] = 1 and dp[i] is the sum of dp[j] over the
\* edges i -> j.
RECURSIVE SumOver(_, _)
SumOver(edges, d) ==
    IF edges = <<>> THEN 0 ELSE DpAt(d, Head(edges).next) + SumOver(Tail(edges), d)
DpRecurrence ==
    /\ Len(dp) = Len(digits) + 1
    /\ DpAt(dp, Len(digits)) = 1
    /\ \A i \in 0..(Len(digits) - 1) : DpAt(dp, i) = SumOver(AdjAt(adj, i), dp)

\* C7 as the spec states it: dp follows the recurrence and dp[i] is the
\* number of distinct symbol sequences reachable from position i, for every
\* table.
C7_CountsDistinctStrings ==
    Counted =>
      /\ DpRecurrence
      /\ \A i \in 0..Len(digits) : DpAt(dp, i) = Cardinality(StringsFrom(i))

\* C7 as amended: dp follows the recurrence and dp[i] is the number of
\* partitions of the input from position i on into table tokens (the paths
\* from i to n); this is the number of distinct symbol sequences only when no
\* two of these partitions decode to the same string, and is never less.
C7_CountsPartitions ==
    Counted =>
      /\ DpRecurrence
      /\ \A i \in 0..Len(digits) :
           /\ DpAt(dp, i) = Cardinality(Partitions(Suffix(i)))
           /\ DpAt(dp, i) >= Cardinality(StringsFrom(i))

\* C7 witness: dp[0] counts two partitions that decode to the same string.
C7_Witness ==
    /\ Counted
    /\ DpAt(dp, 0) > Cardinality(StringsFrom(0))
    /\ Cardinality(StringsFrom(0)) >= 2

\* The symbols of the tokens the dfs calls on the stack have chosen, outermost
\* first: the call at stack[k] chose the token from its position to the
\* position of the call it made.
DfsChosen ==
    [k \in 1..(Len(dfs_stack) - 1) |->
        table[Slice(digits, dfs_stack[k].index, dfs_stack[k + 1].index)]]
\* The symbols of the edges the generate calls on the stack are in.
GenChosen == [k \in 1..(Len(gen_stack) - 1) |-> EdgeOf(gen_stack[k]).c]

\* C8: buffer discipline of dfs and of generate.  The innermost active call,
\* whenever it is at the head of its loop or about to return, finds the
\* buffer as it was when the call was entered; the buffer holds exactly the
\* symbols of the tokens chosen to cover chars[0..index]; its length never
\* exceeds the input's; it is empty when the outermost call has returned.
C8_BufferDiscipline ==
    /\ pc = "dfs_search" =>
         /\ dfs_current = Top(dfs_stack).entry
         /\ dfs_stack[1].index = 0
         /\ dfs_current = DfsChosen
         /\ Len(dfs_current) <= Len(digits)
    /\ dfs_ret.tag = "Ok" => dfs_current = <<>>
    /\ pc = "memo_generate" =>
         /\ gen_current = Top(gen_stack).entry
         /\ gen_stack[1].index = 0
         /\ gen_current = GenChosen
         /\ \A k \in 1..(Len(gen_stack) - 1) :
              EdgeOf(gen_stack[k]).c =
                table[Slice(digits, gen_stack[k].index, gen_stack[k + 1].index)]
         /\ Len(gen_current) <= Len(digits)
    /\ memo_ret.tag = "Ok" => gen_current = <<>>

\* C8 witness: dfs is over, with two results or more and an empty buffer, and
\* generate is in a call that inner calls have returned to, with symbols in
\* the buffer.
C8_Witness ==
    /\ pc = "memo_generate"
    /\ dfs_ret.tag = "Ok" /\ Len(dfs_ret.list) >= 2 /\ dfs_current = <<>>
    /\ Len(gen_stack) >= 2
    /\ Top(gen_stack).edge >= 2
    /\ gen_current # <<>>
    /\ gen_results # <<>>

\* C9: for a valid input the three parsers return the same list: the same
\* strings, as many times, in the same order, which is the order of trying
\* token lengths in ascending order at each position, depth-first.
C9_SameList ==
    (pc = "done" /\ AllValid) =>
      /\ naive_ret = Ok(DepthFirstOrder)
      /\ dfs_ret = Ok(DepthFirstOrder)
      /\ memo_ret = Ok(DepthFirstOrder)

\* C9 witness: the three have returned a list of three strings or more, not
\* all equal, for an input as long as the bound allows.
C9_Witness ==
    /\ pc = "done"
    /\ AllValid
    /\ Len(memo_ret.list) >= 3
    /\ Cardinality(Range(memo_ret.list)) >= 2
    /\ memo_ret = naive_ret

\* Every recursive call is made at a strictly greater position than its
\* caller's, no position beyond n is reached or sliced, every edge i -> j has
\* i < j <= n, and no more than n + 1 calls are nested.
Descent ==
    /\ pc = "naive_list" =>
         /\ Len(naive_stack) <= Len(digits) + 1
         /\ \A k \in 1..(Len(naive_stack) - 1) :
              Len(naive_stack[k + 1].ds) < Len(naive_stack[k].ds)
         /\ LET f == Top(naive_stack) IN
              ~ParseListDone(f) =>
                 /\ f.lookahead_index >= 1
                 /\ UnparsedIndex(f.ds, f.lookahead_index) <= Len(f.ds)
    /\ pc = "dfs_search" =>
         /\ Len(dfs_stack) <= Len(digits) + 1
         /\ \A k \in 1..Len(dfs_stack) : dfs_stack[k].index \in 0..Len(digits)
         /\ \A k \in 1..(Len(dfs_stack) - 1) :
              dfs_stack[k].index < dfs_stack[k + 1].index
         /\ LET f == Top(dfs_stack) IN
              (~DfsAtEnd(f) /\ ~DfsLoopOver(f)) =>
                 f.len >= 1 /\ f.index + f.len <= Len(digits)
    /\ pc \in {"memo_count", "memo_generate"} =>
         /\ Len(adj) = Len(digits)
         /\ \A i \in 0..(Len(digits) - 1) :
              \A e \in 1..Len(AdjAt(adj, i)) :
                 /\ i < AdjAt(adj, i)[e].next
                 /\ AdjAt(adj, i)[e].next <= Len(digits)
    /\ pc = "memo_generate" =>
         /\ Len(gen_stack) <= Len(digits) + 1
         /\ \A k \in 1..Len(gen_stack) : gen_stack[k].index \in 0..Len(digits)
         /\ \A k \in 1..(Len(gen_stack) - 1) :
              gen_stack[k].index < gen_stack[k + 1].index

\* C10: every parse call of the three parsers ends, for every input and
\* table, and Descent holds all along.
C10_Terminates == []Descent /\ <>(pc = "done")

\* C10 witness: dfs has as many calls nested as the input allows, n + 1, the
\* innermost at the end of the input.
C10_Witness ==
    /\ pc = "dfs_search"
    /\ Len(digits) = MaxInput
    /\ Len(dfs_stack) = Len(digits) + 1
    /\ Top(dfs_stack).index = Len(digits)
    /\ memo_ret.tag = "None"

====
